---- MODULE Spec2Model ----
(***************************************************************************)
(* The podcast-generator worker service of daily-gist:                     *)
(*   services/podcast-generator/main.py      worker pool, stale monitor    *)
(*   services/podcast-generator/pipeline.py  generate_podcast              *)
(* The episodes table is the shared store.  The two stored procedures the  *)
(* service calls by RPC, claim_next_job and reset_stale_jobs, are not part *)
(* of the sources at hand; they are modelled from their contract in the    *)
(* specification (section 4.1).                                            *)
(***************************************************************************)
EXTENDS Integers, FiniteSets, Sequences, TLC

\* ------------------------------------------------------------------------
\* Bounds of the model
\* ------------------------------------------------------------------------
NumJobs == 2
MaxFaults == 1
MaxSegments == 2
\* One step of the clock, in minutes.
TickMinutes == 16
\* The longest turn sequence given to _synthesize_audio.
MaxTurns == 40
\* The longest raw text given to _clean_transcript, in units (see Units).
MaxUnits == 4
\* Applications of _clean_transcript to its own output.
MaxPasses == 2

\* ------------------------------------------------------------------------
\* Program constants
\* ------------------------------------------------------------------------
MAX_WORKERS == 2
_PIPELINE_MAX_RETRIES == 2
VisibilityAttempts == 3
StaleTimeoutMinutes == 15

Workers == 1..MAX_WORKERS
Jobs == 1..NumJobs
NoJob == NumJobs + 1
NoWorker == MAX_WORKERS + 1

VARIABLES
    \* the episodes table, one row per job
    status,         \* "absent" (not yet inserted) | queued | processing | ready | failed
    claimedBy,      \* claimed_by of a row in processing (NoWorker otherwise)
    age,            \* minutes since claimed_at of a row in processing, saturating
                    \* once over the timeout (0 otherwise): nothing reads claimed_by or
                    \* claimed_at of a row that is not in processing, and
                    \* claim_next_job sets both anew
    audioUrl,       \* audio_url, audio_size_bytes, transcript, source_newsletters written
    errorMessage,   \* error_message written
    segments,       \* rows of episode_segments for the job
    emailsProcessed,\* raw_emails.processed_at written for the job's emails
    \* the worker threads
    pc,             \* position of each worker in _worker_loop / _process_job
    cur,            \* episode_id of the job the worker is processing
    attempt,        \* loop variable of the pipeline retry loop
    visAttempt,     \* empty read-backs so far in the read-back loop
    exc,            \* the exception the handler of _process_job has caught
    notifies,       \* a new_job notification is pending on the worker's connection
    \* the stale-job monitor thread
    monPc,
    resetCount,     \* reset_count, the result of the monitor's call in this iteration
    \* process-wide
    shutdown,       \* _shutdown_event
    faults,         \* failures of external calls so far
    callBinds,      \* the call generate_podcast(...) of _process_job binds its arguments
    \* history
    claimCount,     \* callers the job was returned to since it last became queued
    held,           \* jobs claimed by the worker whose _process_job has not returned
    supersededAt,   \* age of the worker's claim when reset_stale_jobs took it away (0: not)
    \* one run of the pipeline retry loop, statement by statement
    run,            \* see RunStart
    \* the text and audio functions of the pipeline, applied to one input
    syn             \* see SynOff

storeVars == <<status, claimedBy, age, audioUrl, errorMessage,
               segments, emailsProcessed>>
workerVars == <<pc, cur, attempt, visAttempt, exc, notifies>>
monitorVars == <<monPc, resetCount>>
histVars == <<claimCount, held, supersededAt>>
vars == <<storeVars, workerVars, monitorVars, shutdown, faults, callBinds, histVars,
          run, syn>>

\* ------------------------------------------------------------------------
\* generate_podcast and the call of it
\* ------------------------------------------------------------------------
\* The parameters generate_podcast declares.
GeneratePodcastParams ==
    {"newsletter_text", "user_email", "on_progress", "target_length_minutes"}

\* The arguments _process_job passes (the first positionally, the rest by keyword).
ProcessJobCallArgs ==
    {"newsletter_text", "user_email", "on_progress", "target_length_minutes",
     "intro_music"}

\* Python binds a call only if every keyword names a parameter; otherwise the
\* call raises TypeError before the function body runs.
CallBinds == ProcessJobCallArgs \subseteq GeneratePodcastParams

\* What a pipeline run can raise once it runs.
PipelineErrors ==
    {"RateLimitError", "APIStatusError529", "APIStatusError400", "ValueError"}

_RETRYABLE_EXCEPTIONS ==
    {"RateLimitError", "APIConnectionError", "FuturesTimeoutError",
     "ConnectionError", "TimeoutError"}

AlwaysRetryable(e) == TRUE

_is_retryable(e) ==
    \/ e \in _RETRYABLE_EXCEPTIONS
    \/ e = "APIStatusError529"

\* ------------------------------------------------------------------------
\* One run of the pipeline retry loop of _process_job, with generate_podcast
\* and the provider calls it makes followed statement by statement
\* ------------------------------------------------------------------------
_CLAUDE_MAX_RETRIES == 3
_TTS_MAX_RETRIES == 3

\* What client.messages.create does on one call: it returns a message (for the
\* outline call, one whose text is or is not valid JSON) or raises.
\* APITimeoutError is a subclass of APIConnectionError and is not told apart.
ClaudeErrors ==
    {"RateLimitError", "APIStatusError529", "APIConnectionError",
     "AuthenticationError", "APIStatusError400"}

ClaudeBehaviours(stage) ==
    {"ok"} \cup ClaudeErrors \cup (IF stage = "outline" THEN {"bad_json"} ELSE {})

\* The classes of the anthropic package that derive from APIStatusError, with
\* the status code each carries: RateLimitError is the APIStatusError of 429.
status_code(e) ==
    CASE e = "RateLimitError" -> 429
      [] e = "APIStatusError529" -> 529
      [] e = "AuthenticationError" -> 401
      [] e = "APIStatusError400" -> 400
      [] OTHER -> 0

IsAPIStatusError(e) == status_code(e) # 0

\* except (anthropic.RateLimitError, anthropic.APIStatusError) as exc:
ClaudeCaught(e) == e = "RateLimitError" \/ IsAPIStatusError(e)

\* if isinstance(exc, anthropic.APIStatusError) and exc.status_code != 529: raise
\* if attempt == _CLAUDE_MAX_RETRIES - 1: raise
ClaudeReraises(e, n) ==
    \/ IsAPIStatusError(e) /\ status_code(e) # 529
    \/ n = _CLAUDE_MAX_RETRIES - 1

\* What one attempt of the synthesis call does: generate_content returns within
\* the hard timeout ("ok"); returns or raises only after the hard timeout has
\* expired ("slow"); never returns ("hang"); or raises within the hard timeout:
\* a server error (500 INTERNAL, 503 UNAVAILABLE), or a client error (4xx: auth
\* failure, permanent rejection) whose message does or does not contain one of
\* the substrings _tts_generate looks for.
TtsErrors == {"ServerError", "ClientError", "ClientErrorMarked"}

TtsBehaviours == {"ok", "slow", "hang"} \cup TtsErrors

\* "500" in err_str or "internal" in err_str or "503" in err_str
\* or "disconnected" in err_str or "timeout" in err_str or "timed out" in err_str
TtsIsRetryable(e) == e \in {"ServerError", "ClientErrorMarked"}

\* The class of the exception that leaves _tts_generate.
TtsClass(e) == IF e = "ClientErrorMarked" THEN "ClientError" ELSE e

\* Leaving the block "with ThreadPoolExecutor(max_workers=1) as pool" calls
\* pool.shutdown(wait=True), which joins the thread that runs generate_content:
\* after future.result has timed out, the block is left only when the call
\* itself has ended.
ExitBlocks(b) == b = "hang"

GenStages == {"outline", "first_half", "second_half"}

\* The order with the two halves exchanged.
NextStageHalvesSwapped(stage) ==
    CASE stage = "outline" -> "second_half"
      [] stage = "second_half" -> "first_half"
      [] stage = "first_half" -> "parse"

NextStage(stage) ==
    CASE stage = "outline" -> "first_half"
      [] stage = "first_half" -> "second_half"
      [] stage = "second_half" -> "parse"

\* Not in a run.
RunOff ==
    [input |-> "text", stage |-> "off", attempt |-> 0, callAttempt |-> 0,
     log |-> <<>>, exc |-> "none", genCalls |-> 0, ttsCalls |-> 0,
     progressFailed |-> FALSE, reported |-> {}]

\* input:          newsletter_text is blank or not
\* stage:          "loop": at the call of generate_podcast (main.py:207);
\*                 outline, first_half, second_half: in _claude_create_with_retry,
\*                 at client.messages.create; "parse": at _stitch_transcript;
\*                 "audio": in _tts_generate, at pool.submit; "blocked": leaving
\*                 the with block; "except": at main.py:215; "returned": at
\*                 main.py:227; "raised": in the handler at main.py:284
\* attempt:        loop variable of the pipeline retry loop
\* callAttempt:    loop variable of the retry loop of the provider call
\* log:            what the provider did on each attempt of the current call
\* exc:            the exception in flight
\* genCalls, ttsCalls: calls of client.messages.create and of generate_content
\*                 made by the current invocation of generate_podcast
\* progressFailed: an on_progress callback has raised
\* reported:       the stages reported by the current invocation
RunStart ==
    {[RunOff EXCEPT !.input = i, !.stage = "loop"] : i \in {"blank", "text"}}

\* _report(stage): on_progress is called; what it raises is logged and dropped.
Report(r, stage, fails) ==
    [r EXCEPT !.reported = @ \cup {stage},
              !.progressFailed = @ \/ fails]

\* An exception leaves generate_podcast and is caught at main.py:215.
Raise(r, e) == [r EXCEPT !.stage = "except", !.exc = e]

\* generate_podcast(newsletter_text, ..., intro_music=intro_music) up to the
\* first provider call.
Invoke ==
    /\ run.stage = "loop"
    /\ LET r == [run EXCEPT !.genCalls = 0, !.ttsCalls = 0, !.reported = {},
                            !.callAttempt = 0, !.log = <<>>]
       IN \/ /\ ~callBinds
             /\ run' = Raise(r, "TypeError")
          \/ /\ callBinds
             /\ run.input = "blank"
             /\ run' = Raise(r, "ValueError")
          \/ /\ callBinds
             /\ run.input # "blank"
             /\ \E fails \in BOOLEAN :
                   run' = [Report(r, "outline", fails) EXCEPT !.stage = "outline"]
    /\ UNCHANGED <<storeVars, workerVars, monitorVars, shutdown, faults, callBinds,
                   histVars, syn>>

\* One iteration of the loop of _claude_create_with_retry, and what follows a
\* return: json.loads for the outline, then the next stage's _report.
ClaudeCall ==
    /\ run.stage \in GenStages
    /\ \E b \in ClaudeBehaviours(run.stage), fails \in BOOLEAN :
          LET r == [run EXCEPT !.genCalls = @ + 1, !.log = Append(@, b)]
              next == NextStage(run.stage)
          IN \/ /\ b = "ok"
                /\ run' = IF next = "parse"
                          THEN [r EXCEPT !.stage = next]
                          ELSE [Report(r, next, fails) EXCEPT
                                    !.stage = next, !.callAttempt = 0, !.log = <<>>]
             \/ /\ b = "bad_json"
                /\ ~fails
                /\ run' = Raise(r, "JSONDecodeError")
             \/ /\ b \in ClaudeErrors
                /\ ~fails
                /\ run' = IF ~ClaudeCaught(b) \/ ClaudeReraises(b, run.callAttempt)
                          THEN Raise(r, b)
                          ELSE [r EXCEPT !.callAttempt = @ + 1]
    /\ UNCHANGED <<storeVars, workerVars, monitorVars, shutdown, faults, callBinds,
                   histVars, syn>>

\* _stitch_transcript, _clean_transcript, _parse_transcript; if not turns: raise
\* RuntimeError; _report("audio").
Parse ==
    /\ run.stage = "parse"
    /\ \E noTurns \in BOOLEAN, fails \in BOOLEAN :
          \/ /\ noTurns
             /\ ~fails
             /\ run' = Raise(run, "RuntimeError")
          \/ /\ ~noTurns
             /\ run' = [Report(run, "audio", fails) EXCEPT
                            !.stage = "audio", !.callAttempt = 0, !.log = <<>>]
    /\ UNCHANGED <<storeVars, workerVars, monitorVars, shutdown, faults, callBinds,
                   histVars, syn>>

\* One iteration of the loop of _tts_generate.
TtsCall ==
    /\ run.stage = "audio"
    /\ \E b \in TtsBehaviours :
          LET r == [run EXCEPT !.ttsCalls = @ + 1, !.log = Append(@, b)]
              last == run.callAttempt = _TTS_MAX_RETRIES - 1
          IN \/ /\ b = "ok"
                /\ run' = [r EXCEPT !.stage = "returned"]
             \/ /\ b \in {"slow", "hang"}
                /\ run' = IF ExitBlocks(b) THEN [r EXCEPT !.stage = "blocked"]
                          ELSE IF last THEN Raise(r, "TimeoutError")
                          ELSE [r EXCEPT !.callAttempt = @ + 1]
             \/ /\ b \in TtsErrors
                /\ run' = IF ~TtsIsRetryable(b) \/ last
                          THEN Raise(r, TtsClass(b))
                          ELSE [r EXCEPT !.callAttempt = @ + 1]
    /\ UNCHANGED <<storeVars, workerVars, monitorVars, shutdown, faults, callBinds,
                   histVars, syn>>

\* except Exception as exc: if attempt < _PIPELINE_MAX_RETRIES - 1 and
\* _is_retryable(exc): time.sleep(_PIPELINE_RETRY_DELAY_S) else: raise
Except ==
    /\ run.stage = "except"
    /\ run' = IF run.attempt < _PIPELINE_MAX_RETRIES - 1 /\ _is_retryable(run.exc)
              THEN [run EXCEPT !.stage = "loop", !.attempt = @ + 1]
              ELSE [run EXCEPT !.stage = "raised"]
    /\ UNCHANGED <<storeVars, workerVars, monitorVars, shutdown, faults, callBinds,
                   histVars, syn>>

\* ------------------------------------------------------------------------
\* _synthesize_audio and _synthesize_chunked: the chunk planner, the
\* synthesis prompts and the joining of the chunk audio
\* ------------------------------------------------------------------------
CHUNK_THRESHOLD == 10
target_chunk_size == 15
_CHUNK_GAP_MS == 300

\* The durations a synthesis call's audio can have, in milliseconds.
Durations == {1000, 2000}

\* round(n / d) of Python 3 for n >= 0, d > 0: the nearest integer, a tie
\* going to the even one.
round(n, d) ==
    LET q == n \div d
        r == n % d
    IN IF 2 * r < d THEN q
       ELSE IF 2 * r > d THEN q + 1
       ELSE IF q % 2 = 0 THEN q ELSE q + 1

Max(a, b) == IF a >= b THEN a ELSE b

NumChunksCeil(n) == (n + target_chunk_size - 1) \div target_chunk_size

\* One chunk more than there are turns.
NumChunksTooMany(n) == n + 1

\* num_chunks = max(1, round(len(turns) / target_chunk_size))
NumChunks(n) == Max(1, round(n, target_chunk_size))

RECURSIVE ChunkLoopDropsRemainder(_, _, _, _, _, _)
ChunkLoopDropsRemainder(turns, i, offset, num_chunks, base, remainder) ==
    IF i >= num_chunks THEN <<>>
    ELSE <<SubSeq(turns, offset + 1, offset + base)>>
         \o ChunkLoopDropsRemainder(turns, i + 1, offset + base, num_chunks, base,
                                    remainder)

\* for i in range(num_chunks): size = base + (1 if i < remainder else 0);
\* chunks.append(turns[offset : offset + size]); offset += size
RECURSIVE ChunkLoop(_, _, _, _, _, _)
ChunkLoop(turns, i, offset, num_chunks, base, remainder) ==
    IF i >= num_chunks THEN <<>>
    ELSE LET size == base + (IF i < remainder THEN 1 ELSE 0)
         IN <<SubSeq(turns, offset + 1, offset + size)>>
            \o ChunkLoop(turns, i + 1, offset + size, num_chunks, base, remainder)

Chunks(turns) ==
    LET num_chunks == NumChunks(Len(turns))
        base == Len(turns) \div num_chunks
        remainder == Len(turns) % num_chunks
    IN ChunkLoop(turns, 0, 0, num_chunks, base, remainder)

\* combined = audio_segments[0]; for seg in audio_segments[1:]: combined =
\* combined + silence + seg
RECURSIVE JoinLoop(_, _, _)
JoinLoop(combined, audio_segments, i) ==
    IF i > Len(audio_segments) THEN combined
    ELSE JoinLoop(combined \o <<[kind |-> "gap", chunk |-> 0, ms |-> _CHUNK_GAP_MS]>>
                           \o <<audio_segments[i]>>,
                  audio_segments, i + 1)

JoinNoGaps(audio_segments) == audio_segments

Join(audio_segments) == JoinLoop(<<audio_segments[1]>>, audio_segments, 2)

\* stage:    "off"; "start": at the call of _synthesize_audio; "chunks": in the
\*           loop over the chunks, at _tts_generate; "join": at the joining;
\*           "done": the MP3 is written
\* turns:    the turns given to _synthesize_audio, each named by its position
\*           in the transcript
\* chunks:   chunks of _synthesize_chunked
\* i:        loop variable of the loop over the chunks
\* prompts:  the turns of the prompts given to _tts_generate, in call order
\* audio:    audio_segments
\* combined: the waveform exported, as its pieces in order
\* raw:      the text given to _clean_transcript
\* text:     the transcript, after `passes` applications of _clean_transcript
SynOff ==
    [stage |-> "off", turns |-> <<>>, chunks |-> <<>>, i |-> 0, prompts |-> <<>>,
     audio |-> <<>>, combined |-> <<>>, raw |-> <<>>, text |-> <<>>, passes |-> 0]

SynStart ==
    {[SynOff EXCEPT !.stage = "start", !.turns = [t \in 1..n |-> t]] : n \in 1..MaxTurns}

Segment(c, d) == [kind |-> "seg", chunk |-> c, ms |-> d]

otherVars == <<storeVars, workerVars, monitorVars, shutdown, faults, callBinds, histVars>>

\* ------------------------------------------------------------------------
\* _clean_transcript and _parse_transcript.  A text is a sequence of tokens:
\* the tags <Person1>, </Person1>, <Person2>, </Person2> ("o1", "c1", "o2",
\* "c2"), a greeting at the start of a turn's text ("hi": hey, hi, hello,
\* welcome, ...), other words ("w") and a markup artifact ("art": a
\* [bracketed instruction], a scratchpad, thinking or fenced block).  White
\* space is not kept; the regular expressions are computed on the tokens.
\* ------------------------------------------------------------------------
Tokens == {"o1", "c1", "o2", "c2", "hi", "w", "art"}

\* The pieces raw texts are made of: well-formed turns of either speaker,
\* greeting or not, a turn that holds nothing but an artifact, a turn with an
\* artifact before its greeting, a turn closed by the other speaker's tag,
\* text outside the tags and an artifact outside the tags.
Units ==
    {<<"o1", "hi", "c1">>, <<"o1", "w", "c1">>, <<"o2", "hi", "c2">>,
     <<"o2", "w", "c2">>, <<"o1", "art", "c1">>, <<"o1", "art", "hi", "c1">>,
     <<"o1", "w", "c2">>, <<"w">>, <<"art">>}

RECURSIVE Texts(_)
Texts(n) ==
    IF n = 0 THEN {<<>>}
    ELSE Texts(n - 1) \cup {t \o u : t \in Texts(n - 1), u \in Units}

Min(S) == CHOOSE x \in S : \A y \in S : x <= y

\* The closing tags a pattern accepts after the opening tag o: either one
\* (</Person[12]>) or the opening tag's own (</\1>, </Person1>).
Closers(o, own) ==
    IF own THEN (IF o = "o1" THEN {"c1"} ELSE {"c2"}) ELSE {"c1", "c2"}

\* re.findall / re.finditer of <tag>.*?</tag> with re.DOTALL, from position
\* `from` on: the leftmost opening tag in `opens` that has an accepted closing
\* tag after it, up to the nearest such closing tag; then on from there.  The
\* result is the sequence of the matches' first and last positions.
RECURSIVE Matches(_, _, _, _)
Matches(text, from, opens, own) ==
    LET starts == {p \in from..Len(text) :
                      /\ text[p] \in opens
                      /\ \E q \in (p + 1)..Len(text) : text[q] \in Closers(text[p], own)}
    IN IF starts = {} THEN <<>>
       ELSE LET p == Min(starts)
                q == Min({x \in (p + 1)..Len(text) : text[x] \in Closers(text[p], own)})
            IN <<<<p, q>>>> \o Matches(text, q + 1, opens, own)

\* The text of the matches, one after the other.
RECURSIVE Joined(_, _)
Joined(text, ms) ==
    IF ms = <<>> THEN <<>>
    ELSE SubSeq(text, Head(ms)[1], Head(ms)[2]) \o Joined(text, Tail(ms))

\* group(1) of a match: what is between the tags.
Group(text, m) == SubSeq(text, m[1] + 1, m[2] - 1)

\* _GREETING_RE.match(group.strip())
_GREETING_RE(group) == group # <<>> /\ Head(group) = "hi"

NotArtifact(t) == t # "art"

\* The same test on the first match alone.
DedupFirstOnly(text, p1) ==
    /\ Len(p1) >= 2
    /\ _GREETING_RE(Group(text, p1[1]))

\* if len(p1_matches) >= 2: ... if _GREETING_RE.match(first_text) and
\* _GREETING_RE.match(second_text)
Dedup(text, p1) ==
    /\ Len(p1) >= 2
    /\ _GREETING_RE(Group(text, p1[1]))
    /\ _GREETING_RE(Group(text, p1[2]))

\* _clean_transcript up to the greeting step: the scratchpad, thinking,
\* fenced and bracketed parts are removed, then
\* person_tags = re.findall(r"(<Person[12]>.*?</Person[12]>)", ...) and, if
\* there are any, text = "\n".join(person_tags).  The bold markers and the
\* instruction lines are not among the tokens.
PersonSegments(raw) ==
    LET t3 == SelectSeq(raw, NotArtifact)
        person_tags == Matches(t3, 1, {"o1", "o2"}, FALSE)
    IN IF person_tags # <<>> THEN Joined(t3, person_tags) ELSE t3

_clean_transcript(raw) ==
    LET text == PersonSegments(raw)
        \* p1_matches = list(re.finditer(r"<Person1>(.*?)</Person1>", ...))
        p1_matches == Matches(text, 1, {"o1"}, TRUE)
    IN IF Dedup(text, p1_matches)
       THEN SubSeq(text, 1, p1_matches[1][1] - 1)
                \o SubSeq(text, p1_matches[1][2] + 1, Len(text))
       ELSE text

\* The turns of the matches with text, in order.
RECURSIVE TurnsOf(_, _)
TurnsOf(text, ms) ==
    IF ms = <<>> THEN <<>>
    ELSE LET m == Head(ms)
             turn == [speaker |-> IF text[m[1]] = "o1" THEN "Host" ELSE "Guest",
                      text |-> Group(text, m)]
         IN (IF turn.text # <<>> THEN <<turn>> ELSE <<>>) \o TurnsOf(text, Tail(ms))

\* pattern = r"<(Person[12])>(.*?)</\1>"; a turn without text is skipped.
_parse_transcript(transcript) ==
    TurnsOf(transcript, Matches(transcript, 1, {"o1", "o2"}, TRUE))

SynText ==
    {[SynOff EXCEPT !.stage = "raw", !.raw = t, !.text = t] : t \in Texts(MaxUnits)}

\* transcript = _clean_transcript(transcript), and the function applied again
\* to its own output.
CleanTranscript ==
    /\ syn.stage \in {"raw", "cleaned"}
    /\ syn.passes < MaxPasses
    /\ syn' = [syn EXCEPT !.stage = "cleaned", !.passes = @ + 1,
                          !.text = _clean_transcript(@)]
    /\ UNCHANGED <<otherVars, run>>

\* turns = _parse_transcript(transcript); if not turns: raise RuntimeError;
\* otherwise the turns go to _synthesize_audio.
ParseTranscript ==
    /\ syn.stage = "cleaned"
    /\ LET turns == _parse_transcript(syn.text)
       IN syn' = [syn EXCEPT !.turns = turns,
                             !.stage = IF turns = <<>> THEN "no_turns" ELSE "start"]
    /\ UNCHANGED <<otherVars, run>>

\* _synthesize_audio: up to CHUNK_THRESHOLD turns go into one prompt, whose
\* audio is converted to the MP3; more turns go to _synthesize_chunked, which
\* plans the chunks.
SynthesizeAudio ==
    /\ syn.stage = "start"
    /\ IF Len(syn.turns) > CHUNK_THRESHOLD
       THEN syn' = [syn EXCEPT !.stage = "chunks", !.chunks = Chunks(syn.turns)]
       ELSE \E d \in Durations :
               syn' = [syn EXCEPT !.stage = "done",
                                  !.prompts = <<syn.turns>>,
                                  !.audio = <<Segment(1, d)>>,
                                  !.combined = <<Segment(1, d)>>]
    /\ UNCHANGED <<otherVars, run>>

\* The iteration with the synthesis call made twice.
SynthesizeChunkTwice ==
    /\ syn.stage = "chunks"
    /\ \E d \in Durations :
          syn' = [syn EXCEPT !.prompts = @ \o <<syn.chunks[syn.i + 1], syn.chunks[syn.i + 1]>>,
                             !.audio = @ \o <<Segment(syn.i + 1, d), Segment(syn.i + 1, d)>>,
                             !.i = @ + 1,
                             !.stage = IF syn.i + 1 < Len(syn.chunks)
                                       THEN "chunks" ELSE "join"]
    /\ UNCHANGED <<otherVars, run>>

\* One iteration of for i, chunk in enumerate(chunks): the prompt of the chunk
\* goes to _tts_generate and the audio returned is appended to audio_segments.
SynthesizeChunk ==
    /\ syn.stage = "chunks"
    /\ \E d \in Durations :
          syn' = [syn EXCEPT !.prompts = Append(@, syn.chunks[syn.i + 1]),
                             !.audio = Append(@, Segment(syn.i + 1, d)),
                             !.i = @ + 1,
                             !.stage = IF syn.i + 1 < Len(syn.chunks)
                                       THEN "chunks" ELSE "join"]
    /\ UNCHANGED <<otherVars, run>>

\* The joining with silence gaps and the export.
JoinChunks ==
    /\ syn.stage = "join"
    /\ syn' = [syn EXCEPT !.stage = "done", !.combined = Join(syn.audio)]
    /\ UNCHANGED <<otherVars, run>>

\* ------------------------------------------------------------------------
\* The job store's stored procedures
\* ------------------------------------------------------------------------
ClaimableAny == {j \in Jobs : status[j] \in {"queued", "processing"}}

\* claim_next_job selects among the queued rows.
Claimable == {j \in Jobs : status[j] = "queued"}

StaleJobsAnyAge(timeout) == {j \in Jobs : status[j] = "processing"}

\* reset_stale_jobs(timeout): the rows in processing for longer than the timeout.
StaleJobs(timeout) ==
    {j \in Jobs : status[j] = "processing" /\ age[j] > timeout}

\* ------------------------------------------------------------------------
\* Initial state: no job inserted yet, threads at the top of their loops
\* ------------------------------------------------------------------------
InitCommon ==
    /\ status = [j \in Jobs |-> "absent"]
    /\ claimedBy = [j \in Jobs |-> NoWorker]
    /\ age = [j \in Jobs |-> 0]
    /\ audioUrl = [j \in Jobs |-> FALSE]
    /\ errorMessage = [j \in Jobs |-> FALSE]
    /\ segments = [j \in Jobs |-> 0]
    /\ emailsProcessed = [j \in Jobs |-> FALSE]
    /\ pc = [w \in Workers |-> "outer"]
    /\ cur = [w \in Workers |-> NoJob]
    /\ attempt = [w \in Workers |-> 0]
    /\ visAttempt = [w \in Workers |-> 0]
    /\ exc = [w \in Workers |-> "none"]
    /\ notifies = [w \in Workers |-> FALSE]
    /\ monPc = "check"
    /\ resetCount = 0
    /\ shutdown = FALSE
    /\ faults = 0
    /\ claimCount = [j \in Jobs |-> 0]
    /\ held = [w \in Workers |-> {}]
    /\ supersededAt = [w \in Workers |-> 0]

Init == InitCommon /\ callBinds = CallBinds /\ run = RunOff /\ syn = SynOff

\* An external call fails.
Fault == faults < MaxFaults /\ faults' = faults + 1

\* The worker's connection is open and has executed LISTEN new_job.
Listening(w) == pc[w] \notin {"outer", "stopped"}

\* The positions inside _process_job.
RunningPcs == {"p_start", "p_generate", "p_fail", "p_upload",
               "p_ready", "p_verify", "p_segment", "p_emails"}

\* The worker is inside _process_job.
Running(w) == pc[w] \in RunningPcs

\* ------------------------------------------------------------------------
\* _worker_loop
\* ------------------------------------------------------------------------
BreakAlways == TRUE

\* except Exception: if _shutdown_event.is_set(): break
BreakOnError == shutdown

\* The handler of the try block of _worker_loop, run in the step of the call
\* that raised: the with block has closed the connection; the worker stops if
\* shutdown is set, and otherwise sleeps 5 s and runs the outer loop again.
Handler(w) ==
    /\ pc' = [pc EXCEPT ![w] = IF BreakOnError THEN "stopped" ELSE "outer"]
    /\ notifies' = [notifies EXCEPT ![w] = FALSE]
    /\ cur' = [cur EXCEPT ![w] = NoJob]
    /\ held' = [held EXCEPT ![w] = {}]
    /\ supersededAt' = [supersededAt EXCEPT ![w] = 0]

\* while not _shutdown_event.is_set(): the test of either loop fails
LoopExits == shutdown

\* The outer loop: its test, then with _pg_connect() as conn and LISTEN new_job.
OuterConnect(w) ==
    /\ pc[w] = "outer"
    /\ pc' = [pc EXCEPT ![w] = IF LoopExits THEN "stopped" ELSE "inner"]
    /\ UNCHANGED <<storeVars, cur, attempt, visAttempt, exc, notifies, monitorVars,
                   shutdown, faults, callBinds, claimCount, held, supersededAt, run, syn>>

\* psycopg2.connect or LISTEN raises.
ConnectRaises(w) ==
    /\ pc[w] = "outer"
    /\ ~LoopExits
    /\ Fault
    /\ Handler(w)
    /\ UNCHANGED <<storeVars, attempt, visAttempt, exc, monitorVars, shutdown,
                   callBinds, claimCount, run, syn>>

\* The test of the inner loop; leaving the loop leaves the with block, which
\* closes the connection, and leads to the test of the outer loop.
InnerCheck(w) ==
    /\ pc[w] = "inner"
    /\ pc' = [pc EXCEPT ![w] = IF LoopExits THEN "outer" ELSE "claim"]
    /\ notifies' = [notifies EXCEPT ![w] = IF LoopExits THEN FALSE ELSE notifies[w]]
    /\ UNCHANGED <<storeVars, cur, attempt, visAttempt, exc, monitorVars,
                   shutdown, faults, callBinds, claimCount, held, supersededAt, run, syn>>

AfterClaimDetached == "inner"

\* if job: ... _process_job(episode_id, user_id, job_input) is called synchronously.
AfterClaim == "p_start"

\* resp = supabase.rpc("claim_next_job", {"p_worker_id": worker_id}).execute()
\* returns a job, which claim_next_job moved to processing for this worker.
ClaimJob(w) ==
    /\ pc[w] = "claim"
    /\ \E j \in Claimable :
          /\ status' = [status EXCEPT ![j] = "processing"]
          /\ claimedBy' = [claimedBy EXCEPT ![j] = w]
          /\ age' = [age EXCEPT ![j] = 0]
          /\ cur' = [cur EXCEPT ![w] = j]
          /\ claimCount' = [claimCount EXCEPT ![j] = claimCount[j] + 1]
          /\ held' = [held EXCEPT ![w] = held[w] \cup {j}]
    /\ pc' = [pc EXCEPT ![w] = AfterClaim]
    /\ UNCHANGED <<audioUrl, errorMessage, segments, emailsProcessed,
                   attempt, visAttempt, exc, notifies, monitorVars, shutdown,
                   faults, callBinds, supersededAt, run, syn>>

\* The worker goes on to wait whatever the queue holds.
ClaimGivesUp(w) ==
    /\ pc[w] = "claim"
    /\ pc' = [pc EXCEPT ![w] = "wait"]
    /\ UNCHANGED <<storeVars, cur, attempt, visAttempt, exc, notifies, monitorVars,
                   shutdown, faults, callBinds, histVars, run, syn>>

\* The RPC returns no job: the worker goes on to wait.
ClaimNone(w) ==
    /\ pc[w] = "claim"
    /\ Claimable = {}
    /\ pc' = [pc EXCEPT ![w] = "wait"]
    /\ UNCHANGED <<storeVars, cur, attempt, visAttempt, exc, notifies, monitorVars,
                   shutdown, faults, callBinds, histVars, run, syn>>

\* _get_supabase() or the RPC raises.
ClaimRaises(w) ==
    /\ pc[w] = "claim"
    /\ Fault
    /\ Handler(w)
    /\ UNCHANGED <<storeVars, attempt, visAttempt, exc, monitorVars, shutdown,
                   callBinds, claimCount, run, syn>>

SelectBlocks == FALSE

\* select.select([conn], [], [], 5.0) returns after 5 s without a notification.
SelectTimesOut == TRUE

\* A notification is pending: conn.poll(), drain conn.notifies, loop back to claim.
WaitNotified(w) ==
    /\ pc[w] = "wait"
    /\ notifies[w]
    /\ notifies' = [notifies EXCEPT ![w] = FALSE]
    /\ pc' = [pc EXCEPT ![w] = "inner"]
    /\ UNCHANGED <<storeVars, cur, attempt, visAttempt, exc, monitorVars,
                   shutdown, faults, callBinds, histVars, run, syn>>

\* The 5 s poll timeout: loop back to claim.
WaitTimeout(w) ==
    /\ pc[w] = "wait"
    /\ ~notifies[w]
    /\ SelectTimesOut
    /\ pc' = [pc EXCEPT ![w] = "inner"]
    /\ UNCHANGED <<storeVars, cur, attempt, visAttempt, exc, notifies, monitorVars,
                   shutdown, faults, callBinds, histVars, run, syn>>

\* select or conn.poll() raises (connection lost).
WaitRaises(w) ==
    /\ pc[w] = "wait"
    /\ Fault
    /\ Handler(w)
    /\ UNCHANGED <<storeVars, attempt, visAttempt, exc, monitorVars, shutdown,
                   callBinds, claimCount, run, syn>>

\* ------------------------------------------------------------------------
\* _process_job
\* ------------------------------------------------------------------------
\* supabase = _get_supabase() raises.  The call stands before the try block:
\* the exception leaves _process_job and reaches the handler of _worker_loop.
ClientRaises(w) ==
    /\ pc[w] = "p_start"
    /\ Fault
    /\ Handler(w)
    /\ UNCHANGED <<storeVars, attempt, visAttempt, exc, monitorVars, shutdown,
                   callBinds, claimCount, run, syn>>

\* The store client is built; then the reads of job_input (KeyError when the
\* payload misses one of the keys newsletter_text, email_ids, storage_path,
\* date) and the lookup of the user's email in the users table, which may
\* raise.  The payload is not kept in the model: whether it is well formed is
\* drawn when it is read.
PStart(w) ==
    /\ pc[w] = "p_start"
    /\ \/ /\ exc' = [exc EXCEPT ![w] = "KeyError"]
          /\ pc' = [pc EXCEPT ![w] = "p_fail"]
          /\ UNCHANGED faults
       \/ /\ pc' = [pc EXCEPT ![w] = "p_generate"]
          /\ UNCHANGED <<exc, faults>>
       \/ /\ Fault
          /\ exc' = [exc EXCEPT ![w] = "StoreError"]
          /\ pc' = [pc EXCEPT ![w] = "p_fail"]
    /\ UNCHANGED <<storeVars, cur, attempt, visAttempt, notifies, monitorVars,
                   shutdown, callBinds, histVars, run, syn>>

\* What one call generate_podcast(...) of the retry loop can end with.
GenerateOutcomes ==
    IF callBinds THEN {"ok"} \cup PipelineErrors ELSE {"TypeError"}

\* for attempt in range(_PIPELINE_MAX_RETRIES): one iteration.  A retryable
\* failure of an attempt that is not the last sleeps 60 s and runs the next
\* attempt; any other failure is re-raised to the handler of _process_job.
PGenerate(w) ==
    /\ pc[w] = "p_generate"
    /\ \E o \in GenerateOutcomes :
          IF o = "ok"
          THEN /\ pc' = [pc EXCEPT ![w] = "p_upload"]
               /\ attempt' = [attempt EXCEPT ![w] = 0]
               /\ UNCHANGED exc
          ELSE IF attempt[w] < _PIPELINE_MAX_RETRIES - 1 /\ _is_retryable(o)
          THEN /\ attempt' = [attempt EXCEPT ![w] = attempt[w] + 1]
               /\ UNCHANGED <<pc, exc>>
          ELSE /\ pc' = [pc EXCEPT ![w] = "p_fail"]
               /\ exc' = [exc EXCEPT ![w] = o]
               /\ attempt' = [attempt EXCEPT ![w] = 0]
    /\ UNCHANGED <<storeVars, cur, visAttempt, notifies, monitorVars, shutdown,
                   faults, callBinds, histVars, run, syn>>

\* _process_job returns to _worker_loop, which continues with the inner loop.
Return(w) ==
    /\ pc' = [pc EXCEPT ![w] = "inner"]
    /\ cur' = [cur EXCEPT ![w] = NoJob]
    /\ exc' = [exc EXCEPT ![w] = "none"]
    /\ visAttempt' = [visAttempt EXCEPT ![w] = 0]
    /\ held' = [held EXCEPT ![w] = {}]
    /\ supersededAt' = [supersededAt EXCEPT ![w] = 0]

\* except Exception: the update of the episode to status failed, by id alone.
WriteFailed(w) ==
    /\ pc[w] = "p_fail"
    /\ status' = [status EXCEPT ![cur[w]] = "failed"]
    /\ claimedBy' = [claimedBy EXCEPT ![cur[w]] = NoWorker]
    /\ age' = [age EXCEPT ![cur[w]] = 0]
    /\ errorMessage' = [errorMessage EXCEPT ![cur[w]] = TRUE]
    /\ Return(w)
    /\ UNCHANGED <<audioUrl, segments, emailsProcessed, attempt, notifies,
                   monitorVars, shutdown, faults, callBinds, claimCount, run, syn>>

\* The update itself raises: the inner handler logs it and _process_job returns.
WriteFailedRaises(w) ==
    /\ pc[w] = "p_fail"
    /\ Fault
    /\ Return(w)
    /\ UNCHANGED <<storeVars, attempt, notifies, monitorVars, shutdown, callBinds,
                   claimCount, run, syn>>

\* What the calls of PUpload raise: the progress write, or the upload and
\* get_public_url.
UploadErrors == {"ProgressWriteError", "StoreError"}

\* _update_progress("uploading"), the upload of the MP3 to the podcasts
\* bucket and get_public_url: three calls of the store in a row, none of them
\* inside a try of its own; the row of the job is not touched.
PUpload(w) ==
    /\ pc[w] = "p_upload"
    /\ \/ /\ pc' = [pc EXCEPT ![w] = "p_ready"]
          /\ UNCHANGED <<exc, faults>>
       \/ /\ Fault
          /\ \E e \in UploadErrors : exc' = [exc EXCEPT ![w] = e]
          /\ pc' = [pc EXCEPT ![w] = "p_fail"]
    /\ UNCHANGED <<storeVars, cur, attempt, visAttempt, notifies, monitorVars,
                   shutdown, callBinds, histVars, run, syn>>

\* The update with the status alone.
PReadyStatusOnly(w) ==
    /\ pc[w] = "p_ready"
    /\ status' = [status EXCEPT ![cur[w]] = "ready"]
    /\ claimedBy' = [claimedBy EXCEPT ![cur[w]] = NoWorker]
    /\ age' = [age EXCEPT ![cur[w]] = 0]
    /\ pc' = [pc EXCEPT ![w] = "p_verify"]
    /\ UNCHANGED <<audioUrl, errorMessage, segments, emailsProcessed, cur, attempt,
                   visAttempt, exc, notifies, monitorVars, shutdown, faults,
                   callBinds, histVars, run, syn>>

\* The update of the episode to status ready with audio_url, audio_size_bytes,
\* transcript and source_newsletters, by id alone.
PReady(w) ==
    /\ pc[w] = "p_ready"
    /\ status' = [status EXCEPT ![cur[w]] = "ready"]
    /\ claimedBy' = [claimedBy EXCEPT ![cur[w]] = NoWorker]
    /\ age' = [age EXCEPT ![cur[w]] = 0]
    /\ audioUrl' = [audioUrl EXCEPT ![cur[w]] = TRUE]
    /\ pc' = [pc EXCEPT ![w] = "p_verify"]
    /\ UNCHANGED <<errorMessage, segments, emailsProcessed, cur, attempt,
                   visAttempt, exc, notifies, monitorVars, shutdown, faults,
                   callBinds, histVars, run, syn>>

\* The update raises.
PReadyRaises(w) ==
    /\ pc[w] = "p_ready"
    /\ Fault
    /\ exc' = [exc EXCEPT ![w] = "StoreError"]
    /\ pc' = [pc EXCEPT ![w] = "p_fail"]
    /\ UNCHANGED <<storeVars, cur, attempt, visAttempt, notifies, monitorVars,
                   shutdown, callBinds, histVars, run, syn>>

AfterReadBacksGoOn == "p_segment"

\* else: raise RuntimeError(...): the loop has run out without a break.
AfterReadBacks == "p_fail"

\* for vis_attempt in range(3): one read-back of the row.  The read returns the
\* row or, in an eventual-consistency window of the store, nothing; after the
\* third empty read the else branch raises RuntimeError.  visAttempt counts the
\* empty reads: it is vis_attempt while the loop runs and at the break, and
\* VisibilityAttempts once the loop has run out.
PVerify(w) ==
    /\ pc[w] = "p_verify"
    /\ \E visible \in BOOLEAN :
          IF visible
          THEN /\ pc' = [pc EXCEPT ![w] = "p_segment"]
               /\ UNCHANGED <<visAttempt, exc>>
          ELSE /\ visAttempt' = [visAttempt EXCEPT ![w] = visAttempt[w] + 1]
               /\ IF visAttempt[w] < VisibilityAttempts - 1
                  THEN UNCHANGED <<pc, exc>>
                  ELSE /\ pc' = [pc EXCEPT ![w] = AfterReadBacks]
                       /\ exc' = [exc EXCEPT ![w] = "RuntimeError"]
    /\ UNCHANGED <<storeVars, cur, attempt, notifies, monitorVars, shutdown,
                   faults, callBinds, histVars, run, syn>>

\* The insert of the episode_segments row (counted up to MaxSegments).
PSegment(w) ==
    /\ pc[w] = "p_segment"
    /\ segments' = [segments EXCEPT ![cur[w]] =
                        IF @ < MaxSegments THEN @ + 1 ELSE @]
    /\ pc' = [pc EXCEPT ![w] = "p_emails"]
    /\ UNCHANGED <<status, claimedBy, age, audioUrl, errorMessage, emailsProcessed,
                   cur, attempt, visAttempt, exc, notifies, monitorVars, shutdown,
                   faults, callBinds, histVars, run, syn>>

\* The insert raises.
PSegmentRaises(w) ==
    /\ pc[w] = "p_segment"
    /\ Fault
    /\ exc' = [exc EXCEPT ![w] = "StoreError"]
    /\ pc' = [pc EXCEPT ![w] = "p_fail"]
    /\ UNCHANGED <<storeVars, cur, attempt, visAttempt, notifies, monitorVars,
                   shutdown, callBinds, histVars, run, syn>>

\* The update of raw_emails.processed_at; then "Job completed" and the return.
PEmails(w) ==
    /\ pc[w] = "p_emails"
    /\ emailsProcessed' = [emailsProcessed EXCEPT ![cur[w]] = TRUE]
    /\ Return(w)
    /\ UNCHANGED <<status, claimedBy, age, audioUrl, errorMessage, segments,
                   attempt, notifies, monitorVars, shutdown, faults, callBinds,
                   claimCount, run, syn>>

\* The update raises.
PEmailsRaises(w) ==
    /\ pc[w] = "p_emails"
    /\ Fault
    /\ exc' = [exc EXCEPT ![w] = "StoreError"]
    /\ pc' = [pc EXCEPT ![w] = "p_fail"]
    /\ UNCHANGED <<storeVars, cur, attempt, visAttempt, notifies, monitorVars,
                   shutdown, callBinds, histVars, run, syn>>

\* ------------------------------------------------------------------------
\* _stale_job_monitor
\* ------------------------------------------------------------------------
ResetStaleRpcNever == StaleJobs(StaleTimeoutMinutes + TickMinutes)

ResetStaleRpcShort == StaleJobs(StaleTimeoutMinutes - TickMinutes)

\* supabase.rpc("reset_stale_jobs", {"p_timeout_minutes": 15})
ResetStaleRpc == StaleJobs(StaleTimeoutMinutes)

\* while not _shutdown_event.is_set():
MonitorCheck ==
    /\ monPc = "check"
    /\ monPc' = IF shutdown THEN "stopped" ELSE "call"
    /\ resetCount' = 0
    /\ UNCHANGED <<storeVars, workerVars, shutdown, faults, callBinds, histVars, run, syn>>

\* The RPC succeeds: the stale rows go back to queued, their number is returned.
\* The sleep of 60 s in steps of 1 s (for _ in range(60): if
\* _shutdown_event.is_set(): break; time.sleep(1)) then leads to the loop test.
MonitorReset ==
    /\ monPc = "call"
    /\ LET stale == ResetStaleRpc
       IN /\ status' = [j \in Jobs |-> IF j \in stale THEN "queued" ELSE status[j]]
          /\ claimedBy' = [j \in Jobs |-> IF j \in stale THEN NoWorker ELSE claimedBy[j]]
          /\ age' = [j \in Jobs |-> IF j \in stale THEN 0 ELSE age[j]]
          /\ resetCount' = Cardinality(stale)
          /\ claimCount' = [j \in Jobs |-> IF j \in stale THEN 0 ELSE claimCount[j]]
          /\ supersededAt' =
                [w \in Workers |->
                    IF Running(w) /\ cur[w] \in stale /\ claimedBy[cur[w]] = w
                    THEN age[cur[w]] ELSE supersededAt[w]]
    /\ monPc' = "check"
    /\ UNCHANGED <<audioUrl, errorMessage, segments, emailsProcessed, workerVars,
                   shutdown, faults, callBinds, held, run, syn>>

\* The exception leaves the loop.
MonitorRaisesStops ==
    /\ monPc = "call"
    /\ Fault
    /\ monPc' = "stopped"
    /\ UNCHANGED <<storeVars, workerVars, resetCount, shutdown, callBinds, histVars, run, syn>>

\* except Exception: logger.exception("Stale job monitor error")
MonitorRaises ==
    /\ monPc = "call"
    /\ Fault
    /\ monPc' = "check"
    /\ UNCHANGED <<storeVars, workerVars, resetCount, shutdown, callBinds, histVars, run, syn>>

\* ------------------------------------------------------------------------
\* The environment: the producer, the shutdown hook, the clock
\* ------------------------------------------------------------------------
\* The producer inserts a queued row and signals new_job; the notification
\* reaches the listening connections (delivered) or is lost.
Insert(j, delivered) ==
    /\ status[j] = "absent"
    /\ status' = [status EXCEPT ![j] = "queued"]
    /\ notifies' = [w \in Workers |-> notifies[w] \/ (delivered /\ Listening(w))]
    /\ UNCHANGED <<claimedBy, age, audioUrl, errorMessage, segments, emailsProcessed,
                   pc, cur, attempt, visAttempt, exc, monitorVars, shutdown, faults,
                   callBinds, histVars, run, syn>>

Produce(j) == \E delivered \in BOOLEAN : Insert(j, delivered)

\* The producer's notification is never delivered.
ProduceUnnotified(j) == Insert(j, FALSE)

\* shutdown(): _shutdown_event.set()
SetShutdown ==
    /\ ~shutdown
    /\ shutdown' = TRUE
    /\ UNCHANGED <<storeVars, workerVars, monitorVars, faults, callBinds, claimCount,
                   held, supersededAt, run, syn>>

\* Time passes: every claim in processing gets older.
Tick ==
    /\ \E j \in Jobs : status[j] = "processing" /\ age[j] <= StaleTimeoutMinutes
    /\ age' = [j \in Jobs |->
                IF status[j] = "processing" /\ age[j] <= StaleTimeoutMinutes
                THEN age[j] + TickMinutes ELSE age[j]]
    /\ UNCHANGED <<status, claimedBy, audioUrl, errorMessage, segments,
                   emailsProcessed, workerVars, monitorVars, shutdown, faults,
                   callBinds, histVars, run, syn>>

\* ------------------------------------------------------------------------
\* The program as written
\* ------------------------------------------------------------------------
WorkerStep(w) ==
    \/ OuterConnect(w) \/ ConnectRaises(w) \/ InnerCheck(w)
    \/ ClaimJob(w) \/ ClaimNone(w) \/ ClaimRaises(w)
    \/ WaitNotified(w) \/ WaitTimeout(w) \/ WaitRaises(w)
    \/ ClientRaises(w) \/ PStart(w) \/ PGenerate(w)
    \/ WriteFailed(w) \/ WriteFailedRaises(w)

MonitorStep == MonitorCheck \/ MonitorReset \/ MonitorRaises

Next ==
    \/ \E w \in Workers : WorkerStep(w)
    \/ MonitorStep
    \/ \E j \in Jobs : Produce(j)
    \/ SetShutdown
    \/ Tick

Spec == Init /\ [][Next]_vars

\* ------------------------------------------------------------------------
\* The program as written when no notification is ever delivered, under fair
\* scheduling of the threads: a thread that can take a step eventually takes
\* one
\* ------------------------------------------------------------------------
PollStep(w) ==
    \/ OuterConnect(w) \/ ConnectRaises(w) \/ InnerCheck(w)
    \/ ClaimJob(w) \/ ClaimNone(w) \/ ClaimRaises(w)
    \/ WaitTimeout(w) \/ WaitRaises(w)
    \/ ClientRaises(w) \/ PStart(w) \/ PGenerate(w)
    \/ WriteFailed(w) \/ WriteFailedRaises(w)

PollNext ==
    \/ \E w \in Workers : PollStep(w)
    \/ MonitorStep
    \/ \E j \in Jobs : ProduceUnnotified(j)
    \/ SetShutdown
    \/ Tick

PollSpec ==
    /\ Init /\ [][PollNext]_vars
    /\ \A w \in Workers : WF_vars(PollStep(w))
    /\ WF_vars(MonitorStep)

\* ------------------------------------------------------------------------
\* The program as written, notifications delivered or lost, under fair
\* scheduling of the worker threads
\* ------------------------------------------------------------------------
DrainSpec ==
    /\ Init /\ [][Next]_vars
    /\ \A w \in Workers : WF_vars(WorkerStep(w))

\* ------------------------------------------------------------------------
\* The same, with time passing as well: a claim that can get older eventually
\* does.  The monitor thread is scheduled fairly (it runs until shutdown).
\* ------------------------------------------------------------------------
RecoverSpec ==
    /\ Init /\ [][PollNext]_vars
    /\ \A w \in Workers : WF_vars(PollStep(w))
    /\ WF_vars(MonitorStep)
    /\ WF_vars(Tick)

\* ------------------------------------------------------------------------
\* The program with the call of generate_podcast bound, so that a pipeline
\* run can return and _process_job goes on to lines 227-282 (again with the
\* notifications lost: the jobs are picked up by polling; shutdown is not
\* signalled)
\* ------------------------------------------------------------------------
InitRepaired == InitCommon /\ callBinds = TRUE /\ run = RunOff /\ syn = SynOff

ReadyPathStep(w) ==
    \/ PUpload(w) \/ PReady(w) \/ PReadyRaises(w) \/ PVerify(w)
    \/ PSegment(w) \/ PSegmentRaises(w) \/ PEmails(w) \/ PEmailsRaises(w)

NextRepaired ==
    \/ \E w \in Workers : PollStep(w) \/ ReadyPathStep(w)
    \/ MonitorStep
    \/ \E j \in Jobs : ProduceUnnotified(j)
    \/ Tick

SpecRepaired == InitRepaired /\ [][NextRepaired]_vars

\* ------------------------------------------------------------------------
\* One job's run of the pipeline retry loop, with the call of generate_podcast
\* as written and bound as in SpecRepaired
\* ------------------------------------------------------------------------
InitRun ==
    InitCommon /\ callBinds \in {CallBinds, TRUE} /\ run \in RunStart /\ syn = SynOff

NextRun == Invoke \/ ClaudeCall \/ Parse \/ TtsCall \/ Except

RunSpec == InitRun /\ [][NextRun]_vars

\* ------------------------------------------------------------------------
\* _synthesize_audio applied to one turn sequence
\* ------------------------------------------------------------------------
InitChunk == InitCommon /\ callBinds = CallBinds /\ run = RunOff /\ syn \in SynStart

NextChunk == SynthesizeAudio \/ SynthesizeChunk \/ JoinChunks

ChunkSpec == InitChunk /\ [][NextChunk]_vars

\* ------------------------------------------------------------------------
\* _clean_transcript, _parse_transcript and _synthesize_audio applied to one
\* raw text
\* ------------------------------------------------------------------------
InitText == InitCommon /\ callBinds = CallBinds /\ run = RunOff /\ syn \in SynText

NextText == CleanTranscript \/ ParseTranscript \/ SynthesizeAudio

TextSpec == InitText /\ [][NextText]_vars

\* ------------------------------------------------------------------------
\* Properties
\* ------------------------------------------------------------------------
\* C1: claim exclusivity.  A queued job is returned to at most one caller of
\* claim_next_job: counting from the moment a job became queued, it has been
\* handed to at most one worker.
ClaimExclusive == \A j \in Jobs : claimCount[j] <= 1

\* Two workers have called claim with one job in the store: one holds the job,
\* the other was told there is none and waits.
ClaimExclusiveWitness ==
    \E j \in Jobs : \E w1, w2 \in Workers :
        /\ w1 # w2
        /\ status[j] = "processing" /\ claimedBy[j] = w1 /\ cur[w1] = j
        /\ claimCount[j] = 1
        /\ pc[w2] = "wait"
        /\ \A k \in Jobs \ {j} : status[k] = "absent"

\* C2: happy path.  A claimed job with a well-formed payload and no failing
\* external call ends ready and is not marked failed: _process_job reaches its
\* failure handler only after a missing payload key, a failed store call or a
\* failure raised by the pipeline run.
HappyPathNotFailed ==
    \A w \in Workers :
        pc[w] = "p_fail" =>
            exc[w] \in {"KeyError", "StoreError", "RuntimeError"} \cup UploadErrors
                            \cup PipelineErrors

\* C3: only the claim holder settles a job.  Whenever a worker writes status
\* ready or failed on a job, the job is in processing and claimed by that worker.
OnlyHolderSettles ==
    [][\A w \in Workers :
          (WriteFailed(w) \/ PReady(w)) =>
              (status[cur[w]] = "processing" /\ claimedBy[cur[w]] = w)]_vars

StaleRecovery ==
    [][(monPc = "call" /\ monPc' = "check" /\ faults' = faults) =>
          /\ \A j \in Jobs :
                IF status[j] = "processing" /\ age[j] > StaleTimeoutMinutes
                THEN status'[j] = "queued"
                ELSE /\ status'[j] = status[j]
                     /\ claimedBy'[j] = claimedBy[j]
                     /\ age'[j] = age[j]
          /\ resetCount' =
                Cardinality({j \in Jobs : /\ status[j] = "processing"
                                          /\ age[j] > StaleTimeoutMinutes})]_vars

\* The monitor has just moved one job back to queued and left a job that is
\* still within the timeout in processing.
StaleRecoveryWitness ==
    /\ resetCount = 1
    /\ monPc = "check"
    /\ \E j, k \in Jobs :
          /\ status[j] = "queued" /\ claimCount[j] = 0
          /\ status[k] = "processing" /\ age[k] <= StaleTimeoutMinutes

\* C6 as stated: at no time are two workers executing _process_job for the
\* same job.
OneExecutorPerJob ==
    \A w1, w2 \in Workers :
        (w1 # w2 /\ Running(w1) /\ Running(w2)) => cur[w1] # cur[w2]

\* C6: two workers execute _process_job for the same job only after
\* reset_stale_jobs has taken the job away from one of them, more than 15
\* minutes after that worker claimed it.
OverlapOnlyAfterStaleReset ==
    \A w1, w2 \in Workers :
        (w1 # w2 /\ Running(w1) /\ Running(w2) /\ cur[w1] = cur[w2]) =>
            \/ supersededAt[w1] > StaleTimeoutMinutes
            \/ supersededAt[w2] > StaleTimeoutMinutes

\* Two workers are executing the same job, the first one's claim having been
\* reset after the timeout.
OverlapWitness ==
    \E w1, w2 \in Workers :
        /\ w1 # w2 /\ Running(w1) /\ Running(w2) /\ cur[w1] = cur[w2]
        /\ supersededAt[w1] > StaleTimeoutMinutes
        /\ claimedBy[cur[w2]] = w2

\* C7: one job at a time.  A worker holds at most one job whose _process_job
\* has not returned, and it is not at the claim call while it holds one.
OneJobAtATime ==
    \A w \in Workers :
        /\ Cardinality(held[w]) <= 1
        /\ pc[w] \in {"claim", "wait"} => held[w] = {}
        /\ Running(w) <=> held[w] # {}

\* A worker is running a job while another job is queued.
OneJobAtATimeWitness ==
    \E w \in Workers : \E j \in Jobs :
        /\ Running(w) /\ held[w] = {cur[w]}
        /\ status[j] = "queued" /\ j # cur[w]

\* C8: polling fallback.  With no notification ever delivered, a queued job
\* does not stay queued: it is eventually taken (unless shutdown is set).
PollingPicksUp ==
    \A j \in Jobs : (status[j] = "queued") ~> (status[j] # "queued" \/ shutdown)

\* A job is queued while a worker waits in select with no notification pending.
PollingWitness ==
    \E j \in Jobs : \E w \in Workers :
        /\ status[j] = "queued"
        /\ pc[w] = "wait" /\ ~notifies[w]
        /\ ~shutdown

\* C9: a worker survives infrastructure errors.  A worker thread has stopped
\* only if the shutdown signal is set.
StopsOnlyOnShutdown == \A w \in Workers : pc[w] = "stopped" => shutdown

\* Shutdown is not set and a worker is back at the top of its outer loop after
\* its handler caught an exception: the job it had claimed is still in
\* processing under its name.
SurvivesWitness ==
    \E w \in Workers : \E j \in Jobs :
        /\ ~shutdown
        /\ faults > 0
        /\ pc[w] = "outer"
        /\ status[j] = "processing" /\ claimedBy[j] = w

\* C10: cooperative shutdown.  A worker that is inside _process_job while the
\* shutdown signal is set leaves it with the job's outcome recorded: the job
\* is ready or failed when _process_job is over.
FinishesJobBeforeStopping ==
    [][\A w \in Workers :
          (shutdown /\ Running(w) /\ pc'[w] \notin RunningPcs) =>
              status'[cur[w]] \in {"ready", "failed"}]_vars
\* C11: crash recovery.  A job that is in processing while no worker is
\* working on it (its worker raised before it could record an outcome: building
\* the store client failed, or the write of the failed status itself failed) is
\* eventually returned to queued by the stale-job monitor, where claim_next_job
\* can select it again, as long as the monitor runs (it stops at shutdown).
Orphaned(j) ==
    /\ status[j] = "processing"
    /\ \A w \in Workers : ~(Running(w) /\ cur[w] = j)

TransientClasses ==
    {"RateLimitError", "APIConnectionError", "ConnectionError", "TimeoutError",
     "FuturesTimeoutError", "APIStatusError529"}

PipelineRetryGated ==
    [][/\ run'.attempt < _PIPELINE_MAX_RETRIES
       /\ run'.attempt # run.attempt =>
             /\ run.stage = "except" /\ run.attempt = 0
             /\ run.exc \in TransientClasses
             /\ run'.attempt = 1 /\ run'.stage = "loop"
       /\ (run.stage = "loop" /\ run' # run) =>
             /\ run'.genCalls = 0 /\ run'.ttsCalls = 0
             /\ run'.stage \in {"outline", "except"}
             /\ run'.stage = "outline" => run'.reported = {"outline"}
       /\ (run.stage = "except" /\ run' # run
             /\ (run.exc \notin TransientClasses \/ run.attempt = 1)) =>
             run'.stage = "raised"
       /\ run.stage \in {"returned", "raised"} => run' = run]_vars

\* A second invocation, made after a transient failure of the first, has
\* returned.
PipelineRetryWitness ==
    run.attempt = 1 /\ run.stage = "returned" /\ run.genCalls = 3

\* C13: input-shape failures are fatal.  With a blank input document the run
\* never gets past the first invocation of generate_podcast and makes no
\* provider call; the failure of a transcript without turns is raised with no
\* synthesis call made by that invocation; and neither failure is followed by
\* another invocation: it is in the except clause or has gone on to the handler
\* that marks the job failed.
InputShapeFatal ==
    /\ run.input = "blank" =>
          /\ run.stage \in {"loop", "except", "raised"}
          /\ run.attempt = 0 /\ run.genCalls = 0 /\ run.ttsCalls = 0
          /\ run.stage # "loop" => run.exc \in {"ValueError", "TypeError"}
    /\ run.exc = "ValueError" => run.input = "blank"
    /\ run.exc = "RuntimeError" =>
          /\ run.stage \in {"except", "raised"}
          /\ run.genCalls >= Cardinality(GenStages) /\ run.ttsCalls = 0
          /\ "audio" \notin run.reported

\* A transcript without turns has failed the job after the three generation
\* calls of the invocation.
InputShapeWitness ==
    /\ run.exc = "RuntimeError" /\ run.stage = "raised" /\ run.attempt = 0
    /\ run.reported = {"outline", "first_half", "second_half"}

\* A blank input document has failed the job.
BlankInputWitness ==
    run.input = "blank" /\ run.exc = "ValueError" /\ run.stage = "raised"

\* C14: two-level escalation of transient failures.  A transient provider
\* failure (rate limit, connection, overload, timeout), from a generation call
\* or from a synthesis call, reaches the pipeline retry loop only after the
\* call's own attempts are used up, and reaches the handler that marks the job
\* failed only after the pipeline was run a second time.
TransientFailures ==
    {"RateLimitError", "APIConnectionError", "APIStatusError529",
     "ServerError", "TimeoutError"}

TwoLevelEscalation ==
    (run.stage \in {"except", "raised"} /\ run.exc \in TransientFailures) =>
        /\ Len(run.log) = _CLAUDE_MAX_RETRIES
        /\ run.stage = "raised" => run.attempt = _PIPELINE_MAX_RETRIES - 1

\* C15: fatal provider failures are surfaced immediately.  An attempt of a
\* provider call that ends in an auth failure, a permanent rejection or an
\* outline response that is not valid JSON is the last attempt of that call,
\* and it is not followed by another invocation of generate_podcast: the run is
\* in the except clause or has gone on to the handler that marks the job failed.
FatalBehaviours ==
    {"AuthenticationError", "APIStatusError400", "bad_json",
     "ClientError", "ClientErrorMarked"}

FatalSurfacedImmediately ==
    \A i \in 1..Len(run.log) :
        run.log[i] \in FatalBehaviours =>
            /\ i = Len(run.log)
            /\ run.stage \in {"except", "raised"}

\* C16: retry of a synthesis call.  _tts_generate makes at most three attempts;
\* every attempt before the last one made ended in a retryable failure (a
\* hard-timeout expiry, or an error whose message is classified retryable); an
\* attempt that succeeds makes the call return, so two retryable failures and
\* a success return the third attempt's audio; a retryable failure before the
\* third attempt is followed by the next attempt; and when the third attempt
\* fails too the failure is raised to the caller, as TimeoutError for a
\* hard-timeout expiry.
RetryableAttempts == {"slow", "hang", "ServerError", "ClientErrorMarked"}

SynthesisCallRetry ==
    run.ttsCalls > 0 =>
        LET n == Len(run.log)
        IN /\ n = run.ttsCalls /\ n <= _TTS_MAX_RETRIES
           /\ \A i \in 1..(n - 1) : run.log[i] \in RetryableAttempts
           /\ run.log[n] = "ok" => run.stage = "returned"
           /\ (run.log[n] \in RetryableAttempts /\ n < _TTS_MAX_RETRIES) =>
                 run.stage = "audio" /\ run.callAttempt = n
           /\ (run.log[n] # "ok" /\ n = _TTS_MAX_RETRIES) =>
                 /\ run.stage \in {"except", "raised", "loop"}
                 /\ run.exc = (IF run.log[n] \in {"slow", "hang"}
                               THEN "TimeoutError"
                               ELSE IF run.log[n] = "ServerError"
                               THEN "ServerError" ELSE "ClientError")

\* C17: the hard timeout is enforced independently of the provider.  An attempt
\* of _tts_generate whose provider call has not returned when the hard timeout
\* expires, whether it returns later or never, is given up and counted as a
\* failed attempt: the call is at its next attempt or has raised TimeoutError;
\* _tts_generate is never stuck behind a provider call.
HardTimeoutEnforced ==
    /\ run.stage # "blocked"
    /\ (run.ttsCalls > 0 /\ run.log[Len(run.log)] \in {"slow", "hang"}) =>
          \/ run.stage = "audio" /\ run.callAttempt = Len(run.log)
          \/ run.stage \in {"except", "raised", "loop"} /\ run.exc = "TimeoutError"

ReadBackBeforeDependents ==
    /\ [](\A w \in Workers :
            /\ visAttempt[w] <= VisibilityAttempts
            /\ pc[w] \in {"p_verify", "p_segment", "p_emails"} =>
                  visAttempt[w] < VisibilityAttempts
            /\ visAttempt[w] = VisibilityAttempts =>
                  pc[w] = "p_fail" /\ exc[w] = "RuntimeError")
    /\ [][\A j \in Jobs :
            /\ segments'[j] # segments[j] =>
                  \E w \in Workers : pc[w] = "p_segment" /\ cur[w] = j
            /\ emailsProcessed'[j] # emailsProcessed[j] =>
                  \E w \in Workers : pc[w] = "p_emails" /\ cur[w] = j]_vars

\* A job got its segment after two empty read-backs and a third that saw it.
ReadBackWitness ==
    \E w \in Workers :
        pc[w] = "p_emails" /\ visAttempt[w] = VisibilityAttempts - 1
        /\ segments[cur[w]] > 0 /\ status[cur[w]] = "ready"

\* Three empty read-backs: the worker is in the failure handler and the job has
\* no segment.
ReadBackFailedWitness ==
    \E w \in Workers :
        pc[w] = "p_fail" /\ visAttempt[w] = VisibilityAttempts
        /\ segments[cur[w]] = 0 /\ ~emailsProcessed[cur[w]]

\* C20: every unrecovered failure is recorded.  _process_job ends without a
\* failure only at "Job completed", after the raw_emails update; whenever it
\* ends anywhere else, a failure has occurred that no retry recovered, and the
\* job is then marked failed with the fixed message.
EveryFailureRecorded ==
    [][\A w \in Workers :
          (Running(w) /\ pc'[w] \notin RunningPcs /\ pc[w] # "p_emails") =>
              status'[cur[w]] = "failed" /\ errorMessage'[cur[w]]]_vars

\* C21: the failure signal is not lost.  When the write of the failed status
\* itself raises, _process_job writes the failed status a second time, so that
\* the job is failed, not in processing, when _process_job is over.
FailureSignalKept ==
    [][\A w \in Workers :
          (pc[w] = "p_fail" /\ faults' # faults /\ pc'[w] \notin RunningPcs) =>
              status'[cur[w]] = "failed"]_vars

\* C22: the chunk planner partitions the turns.  For every turn sequence of
\* more than 10 turns, the chunks of _synthesize_chunked have sizes that differ
\* by at most 1 and sum to the number of turns, and the chunks put one after
\* the other in index order are the turn sequence itself.
RECURSIVE Flatten(_)
Flatten(ss) == IF ss = <<>> THEN <<>> ELSE Head(ss) \o Flatten(Tail(ss))

RECURSIVE SumLen(_)
SumLen(ss) == IF ss = <<>> THEN 0 ELSE Len(Head(ss)) + SumLen(Tail(ss))

Planned == syn.stage \in {"chunks", "join", "done"} /\ Len(syn.turns) > CHUNK_THRESHOLD

PlannerPartition ==
    Planned =>
        /\ \A a, b \in 1..Len(syn.chunks) :
              Len(syn.chunks[a]) - Len(syn.chunks[b]) <= 1
        /\ SumLen(syn.chunks) = Len(syn.turns)
        /\ Flatten(syn.chunks) = syn.turns

\* A plan with chunks of two different sizes.
PlannerPartitionWitness ==
    /\ Planned
    /\ \E a, b \in 1..Len(syn.chunks) : Len(syn.chunks[a]) # Len(syn.chunks[b])

\* C29: chunk count and distribution.  For N turns the planner makes k chunks,
\* k being the integer nearest to N/15 and at least 1; with base = N div k and
\* remainder = N mod k the first remainder chunks have base + 1 turns and the
\* others base turns; 40 turns give the sizes 14, 13, 13.
ChunkSizes == [c \in 1..Len(syn.chunks) |-> Len(syn.chunks[c])]

ChunkCountAndSizes ==
    Planned =>
        LET N == Len(syn.turns)
            k == Len(syn.chunks)
        IN /\ k >= 1
           /\ \/ 2 * (target_chunk_size * k - N) < target_chunk_size
                 /\ 2 * (N - target_chunk_size * k) < target_chunk_size
              \/ k = 1 /\ 2 * N < target_chunk_size
           /\ \A c \in 1..k :
                 ChunkSizes[c] = (N \div k) + (IF c <= N % k THEN 1 ELSE 0)
           /\ N = 40 => ChunkSizes = <<14, 13, 13>>

\* The plan for 40 turns.
ChunkCountWitness ==
    Planned /\ Len(syn.turns) = 40 /\ ChunkSizes = <<14, 13, 13>>

\* C30: chunk size bound.  For every number of turns, no chunk planned and no
\* prompt given to a synthesis call has more turns than the target chunk size.
ChunkSizeBound ==
    /\ \A c \in 1..Len(syn.chunks) : Len(syn.chunks[c]) <= target_chunk_size
    /\ \A p \in 1..Len(syn.prompts) : Len(syn.prompts[p]) <= target_chunk_size

\* C24: audio stitching.  For k chunk audio segments the waveform exported is
\* segment 1, gap, segment 2, ..., gap, segment k in chunk order: 2k - 1
\* pieces, the odd ones the segments, each chunk's audio once and at its place,
\* the even ones gaps of 300 ms, so k - 1 gaps, none first or last; its
\* duration is the sum of the segments' durations plus (k - 1) times the gap.
RECURSIVE SumMs(_)
SumMs(ps) == IF ps = <<>> THEN 0 ELSE Head(ps).ms + SumMs(Tail(ps))

Stitched ==
    (syn.stage = "done" /\ Len(syn.turns) > CHUNK_THRESHOLD) =>
        LET k == Len(syn.audio)
        IN /\ k = Len(syn.chunks)
           /\ Len(syn.combined) = 2 * k - 1
           /\ \A c \in 1..k :
                 /\ syn.audio[c].chunk = c
                 /\ syn.combined[2 * c - 1] = syn.audio[c]
           /\ \A c \in 1..(k - 1) :
                 /\ syn.combined[2 * c].kind = "gap"
                 /\ syn.combined[2 * c].ms = 300
           /\ SumMs(syn.combined) = SumMs(syn.audio) + (k - 1) * 300

\* Three segments of different durations joined.
StitchedWitness ==
    /\ syn.stage = "done" /\ Len(syn.audio) = 3
    /\ syn.audio[1].ms # syn.audio[2].ms
    /\ Len(syn.combined) = 5

\* ------------------------------------------------------------------------
\* C26.  Greeting de-duplication: when the first two Person1 turns of the text
\* both begin with a greeting, the normalizer removes the first of the two and
\* nothing else; otherwise it removes no turn.  The turns of the other
\* speaker and every later turn stay, in their order.  A turn is a tagged
\* segment <PersonN>...</PersonN>, with or without text.
\* ------------------------------------------------------------------------
RECURSIVE Tagged(_, _)
Tagged(text, ms) ==
    IF ms = <<>> THEN <<>>
    ELSE <<[speaker |-> IF text[Head(ms)[1]] = "o1" THEN "Host" ELSE "Guest",
            text |-> Group(text, Head(ms))]>> \o Tagged(text, Tail(ms))

TaggedTurns(text) == Tagged(text, Matches(text, 1, {"o1", "o2"}, TRUE))

Without(seq, k) == SubSeq(seq, 1, k - 1) \o SubSeq(seq, k + 1, Len(seq))

HostTurns(turns) == {k \in 1..Len(turns) : turns[k].speaker = "Host"}

TwoGreetings(turns) ==
    /\ Cardinality(HostTurns(turns)) >= 2
    /\ LET h1 == Min(HostTurns(turns))
           h2 == Min(HostTurns(turns) \ {h1})
       IN /\ turns[h1].text # <<>> /\ Head(turns[h1].text) = "hi"
          /\ turns[h2].text # <<>> /\ Head(turns[h2].text) = "hi"

GreetingDedup ==
    (syn.stage = "cleaned" /\ syn.passes = 1) =>
        LET before == TaggedTurns(PersonSegments(syn.raw))
            after == TaggedTurns(syn.text)
        IN IF TwoGreetings(before)
           THEN after = Without(before, Min(HostTurns(before)))
           ELSE after = before

\* A text with a Guest turn first, then two greeting Host turns and a later
\* turn, has been normalized: the first Host greeting is gone.
GreetingDedupWitness ==
    /\ syn.stage = "cleaned" /\ syn.passes = 1
    /\ LET before == TaggedTurns(PersonSegments(syn.raw))
       IN /\ Len(before) = 4
          /\ before[1].speaker = "Guest"
          /\ TwoGreetings(before)
          /\ Len(TaggedTurns(syn.text)) = 3

\* A text whose first Host turn greets and whose second does not has been
\* normalized and kept every turn.
GreetingKeptWitness ==
    /\ syn.stage = "cleaned" /\ syn.passes = 1
    /\ LET before == TaggedTurns(PersonSegments(syn.raw))
       IN /\ Cardinality(HostTurns(before)) >= 2
          /\ Head(before[Min(HostTurns(before))].text) = "hi"
          /\ ~TwoGreetings(before)
          /\ Len(TaggedTurns(syn.text)) = Len(before)

\* ------------------------------------------------------------------------
\* C25.  The normalizer is idempotent: applied to its own output it returns
\* that output.
\* ------------------------------------------------------------------------
Idempotent ==
    [][(syn.stage = "cleaned" /\ syn'.stage = "cleaned") => syn'.text = syn.text]_vars

\* ------------------------------------------------------------------------
\* C23.  No turn is lost between the cleaned transcript and synthesis: the
\* tagged turns with text that the normalizer kept (the segments
\* <Person1|2>...</Person1|2> of its output) are, in their order, the turns
\* of the prompts taken in call order, each once.
\* ------------------------------------------------------------------------
NonEmptyTurn(turn) == turn.text # <<>>

CleanedTurns(text) ==
    SelectSeq(Tagged(text, Matches(text, 1, {"o1", "o2"}, FALSE)), NonEmptyTurn)

NoTurnLost ==
    (syn.stage = "done" /\ syn.raw # <<>>) =>
        Flatten(syn.prompts) = CleanedTurns(syn.text)

\* ------------------------------------------------------------------------
\* C27.  Generation call retry: a call of client.messages.create that fails
\* with status 429 (rate limit) or 529 (overloaded) is made again while fewer
\* than 3 attempts have been made, and the error of the third attempt is
\* raised; an error with any other status is raised by the attempt it occurs
\* in.
\* ------------------------------------------------------------------------
GenerationCallRetry ==
    [][(/\ run.stage \in GenStages
        /\ Len(run'.log) = Len(run.log) + 1
        /\ IsAPIStatusError(run'.log[Len(run'.log)]))
       => LET e == run'.log[Len(run'.log)]
          IN IF status_code(e) \in {429, 529} /\ Len(run'.log) < 3
             THEN run'.stage = run.stage /\ run'.callAttempt = run.callAttempt + 1
             ELSE run'.stage = "except" /\ run'.exc = e]_vars

\* ------------------------------------------------------------------------
\* C28.  Stage order within one invocation of generate_podcast: the stages
\* run in the order outline, first half, second half, stitching with
\* normalization and parsing, synthesis; a stage is entered only from the one
\* before it, after that one's call has returned; the progress labels reported
\* so far are the labels of the stages entered so far, a prefix of outline,
\* first_half, second_half, audio.
\* ------------------------------------------------------------------------
StageOrder == <<"outline", "first_half", "second_half", "parse", "audio">>

StageIndex(stage) == CHOOSE k \in 1..Len(StageOrder) : StageOrder[k] = stage

InStage(r) == r.stage \in {StageOrder[k] : k \in 1..Len(StageOrder)}

Labels == <<"outline", "first_half", "second_half", "audio">>

LabelPrefix(n) == {Labels[k] : k \in 1..n}

StagesInOrder ==
    /\ [](/\ \E n \in 0..Len(Labels) : run.reported = LabelPrefix(n)
          /\ InStage(run) =>
                /\ run.reported =
                      LabelPrefix(IF run.stage = "audio" THEN 4
                                  ELSE IF run.stage = "parse" THEN 3
                                  ELSE StageIndex(run.stage))
                /\ run.genCalls >= (IF run.stage = "audio" THEN 3
                                    ELSE StageIndex(run.stage) - 1))
    /\ [][/\ (InStage(run') /\ run'.stage # run.stage) =>
                IF InStage(run)
                THEN /\ StageIndex(run'.stage) = StageIndex(run.stage) + 1
                     /\ run.stage \in GenStages =>
                            /\ run'.genCalls = run.genCalls + 1
                            /\ run.callAttempt = Len(run.log)
                ELSE run.stage = "loop" /\ run'.stage = "outline"
           /\ (run'.stage = "returned" /\ run.stage # "returned") =>
                run.stage = "audio"]_vars

\* An invocation has gone through every stage and returned.
StagesInOrderWitness ==
    /\ run.stage = "returned"
    /\ run.reported = {"outline", "first_half", "second_half", "audio"}
    /\ run.genCalls >= 3
    /\ run.ttsCalls >= 1

\* ------------------------------------------------------------------------
\* C31.  Single-chunk threshold and call count.  Up to 10 turns go into one
\* synthesis call that holds all of them in order, and the audio has no
\* silence gap.  More than 10 turns make one synthesis call per planned chunk,
\* in the order of the chunk indices: the prompts sent so far are the first
\* planned chunks, every call sent has returned its audio before the next is
\* made, a step makes at most one call, and when the joining starts there
\* have been as many calls as chunks.
\* ------------------------------------------------------------------------
OneCallPerChunk ==
    /\ [](LET n == Len(syn.turns)
              sent == Len(syn.prompts)
          IN /\ Len(syn.audio) = sent
             /\ (syn.stage = "done" /\ n <= 10) =>
                    /\ syn.prompts = <<syn.turns>>
                    /\ Len(syn.combined) = 1
                    /\ syn.combined[1].kind = "seg"
             /\ (syn.stage \in {"chunks", "join", "done"} /\ n > 10) =>
                    /\ sent <= NumChunks(n)
                    /\ syn.prompts = SubSeq(Chunks(syn.turns), 1, sent)
                    /\ \A c \in 1..sent : syn.audio[c].chunk = c
                    /\ syn.stage \in {"join", "done"} => sent = NumChunks(n))
    /\ [][Len(syn'.prompts) <= Len(syn.prompts) + 1]_vars

\* Eleven or more turns in three chunks have been synthesized by three calls.
OneCallPerChunkWitness ==
    /\ syn.stage = "done"
    /\ Len(syn.turns) > 10
    /\ Len(syn.prompts) = 3
    /\ syn.prompts = syn.chunks

\* Ten turns have been synthesized by one call.
SingleShotWitness ==
    /\ syn.stage = "done"
    /\ Len(syn.turns) = 10
    /\ Len(syn.prompts) = 1 /\ Len(syn.prompts[1]) = 10

\* ------------------------------------------------------------------------
\* C37.  Every planned chunk is non-empty: for more than 10 turns the number
\* of chunks is at most the number of turns, so every chunk has a turn, no
\* synthesis call gets an empty prompt, and the joining gets at least one
\* audio segment.
\* ------------------------------------------------------------------------
ChunksNonEmpty ==
    /\ Len(syn.turns) > 10 =>
          /\ NumChunks(Len(syn.turns)) <= Len(syn.turns)
          /\ \A c \in 1..Len(syn.chunks) : syn.chunks[c] # <<>>
          /\ syn.stage \in {"chunks", "join", "done"} => syn.chunks # <<>>
          /\ syn.stage \in {"join", "done"} => syn.audio # <<>>
    /\ \A p \in 1..Len(syn.prompts) : syn.prompts[p] # <<>>

\* The smallest chunked input: eleven turns, planned, synthesized and joined.
ChunksNonEmptyWitness ==
    /\ syn.stage = "done"
    /\ Len(syn.turns) = 11
    /\ Len(syn.chunks) = 1 /\ Len(syn.chunks[1]) = 11
    /\ Len(syn.audio) = 1

\* ------------------------------------------------------------------------
\* C32.  Normalizer output shape: the output of _clean_transcript is made of
\* tagged turns and nothing else, every turn is closed by the tag of the
\* role that opened it and holds no tag inside, and the turns are turns of the
\* raw text (its artifacts removed) in their original order.
\* ------------------------------------------------------------------------
TagTokens == {"o1", "c1", "o2", "c2"}

WellFormedSegment(text, m) ==
    /\ text[m[2]] \in Closers(text[m[1]], TRUE)
    /\ \A k \in (m[1] + 1)..(m[2] - 1) : text[k] \notin TagTokens

RECURSIVE IsSubSeq(_, _)
IsSubSeq(a, b) ==
    IF a = <<>> THEN TRUE
    ELSE IF b = <<>> THEN FALSE
    ELSE IF Head(a) = Head(b) THEN IsSubSeq(Tail(a), Tail(b))
    ELSE IsSubSeq(a, Tail(b))

NormalizedShape ==
    (syn.stage = "cleaned" /\ syn.passes = 1) =>
        LET kept == Matches(syn.text, 1, {"o1", "o2"}, FALSE)
        IN /\ Joined(syn.text, kept) = syn.text
           /\ \A k \in 1..Len(kept) : WellFormedSegment(syn.text, kept[k])
           /\ IsSubSeq(Tagged(syn.text, kept),
                       TaggedTurns(SelectSeq(syn.raw, NotArtifact)))

\* ------------------------------------------------------------------------
\* C33.  Stale-job monitor loop.  While the shutdown signal is not set the
\* monitor goes from its loop test to a call of reset_stale_jobs and back,
\* again and again; the call moves only jobs in processing for more than 15
\* minutes; a call that raises leads back to the loop test like one that
\* returns; the monitor stops only when the signal is set; a call is started
\* only at a loop test that found the signal not set, so after the signal is
\* set at most the call already started is made, and then the monitor stops.
\* ------------------------------------------------------------------------
MonitorLoop ==
    /\ [](monPc = "stopped" => shutdown)
    /\ [][/\ shutdown => shutdown'
          /\ monPc = "call" => monPc' \in {"call", "check"}
          /\ (monPc' = "call" /\ monPc # "call") => (monPc = "check" /\ ~shutdown)
          /\ monPc = "stopped" => monPc' = "stopped"
          /\ (monPc = "call" /\ monPc' = "check") =>
                \A j \in Jobs :
                    (status[j] = "processing" /\ status'[j] = "queued") =>
                        age[j] > StaleTimeoutMinutes]_vars
    /\ (monPc = "check" /\ ~shutdown) ~> (monPc = "call" \/ shutdown)
    /\ (monPc = "call") ~> (monPc = "check")
    /\ shutdown ~> (monPc = "stopped")

\* The monitor, one of whose calls has taken a job from a worker, is at a
\* later call, the signal not set.
MonitorLoopWitness ==
    /\ monPc = "call"
    /\ ~shutdown
    /\ \E w \in Workers : supersededAt[w] > StaleTimeoutMinutes

\* The signal was set while the monitor was at a call; the call has been made
\* and the monitor has stopped.
MonitorStoppedWitness ==
    /\ monPc = "stopped"
    /\ shutdown
    /\ resetCount = 0

\* ------------------------------------------------------------------------
\* C34.  Ready implies artifact: a job whose status is ready has its
\* audio_url and audio_size_bytes set; the status becomes ready only by the
\* update of a worker that is processing the job and stands after the upload,
\* and a worker gets there only by an upload step that did not raise.
\* ------------------------------------------------------------------------
ReadyHasArtifact ==
    /\ [](\A j \in Jobs : status[j] = "ready" => audioUrl[j])
    /\ [][/\ \A j \in Jobs :
                (status'[j] = "ready" /\ status[j] # "ready") =>
                    \E w \in Workers :
                        /\ pc[w] = "p_ready" /\ cur[w] = j
                        /\ pc'[w] = "p_verify"
                        /\ audioUrl'[j]
          /\ \A w \in Workers :
                (pc'[w] = "p_ready" /\ pc[w] # "p_ready") =>
                    (pc[w] = "p_upload" /\ exc'[w] = exc[w] /\ faults' = faults)]_vars

\* A worker has just written ready for its job and is at the read-back.
ReadyHasArtifactWitness ==
    \E w \in Workers :
        /\ pc[w] = "p_verify"
        /\ status[cur[w]] = "ready"
        /\ audioUrl[cur[w]]
        /\ segments[cur[w]] = 0

QueueDrained ==
    /\ [][\A w \in Workers :
            /\ (pc'[w] = "wait" /\ pc[w] # "wait") =>
                  (pc[w] = "claim" /\ \A j \in Jobs : status[j] # "queued")
            /\ (Running(w) /\ ~Running(w)') =>
                  pc'[w] \in {"inner", "outer", "stopped"}
            /\ pc[w] = "inner" => pc'[w] \in {"inner", "claim", "outer"}
            /\ (pc[w] = "wait" /\ notifies[w] /\ ~notifies'[w] /\ faults' = faults) =>
                  (pc'[w] = "inner" /\ status' = status)]_vars
    /\ \A j \in Jobs : (status[j] = "queued") ~> (status[j] # "queued" \/ shutdown)

\* One worker alone, the others never started and no notification pending,
\* has settled one job and is processing the next.
QueueDrainedWitness ==
    \E w \in Workers : \E j \in Jobs :
        /\ Running(w) /\ cur[w] # j
        /\ status[j] = "failed"
        /\ ~notifies[w]
        /\ faults = 0 /\ ~shutdown
        /\ \A v \in Workers \ {w} : pc[v] = "outer"

====
